---- MODULE Spec2Model ----
(***************************************************************************)
(* Model of app.py: the QR attendance form (vista_registro), the record    *)
(* store accessor (cargar_datos / guardar_registro), the roster loader     *)
(* (cargar_personas) and the point-mode overlay (generar_heatmap).         *)
(*                                                                         *)
(* Text values are tokens; the conversions the code applies to them        *)
(* (str.strip, normalizar, the column type inference of pd.read_csv) are   *)
(* tables over the tokens the model uses.  Time is in whole seconds.       *)
(***************************************************************************)
EXTENDS Integers, Sequences, FiniteSets, TLC

\* ------------------------------------------------------------------ bounds
MaxReloj == 121          \* last clock reading considered
MaxRegistros == 2        \* guardar_registro calls per behaviour
MaxFilasMapa == 3        \* rows of the record file handed to the panel
MaxVentana == 2          \* cooldown windows considered, in minutes
MaxPersonas == 2         \* rows of personas.csv

\* --------------------------------------------------------------- constants
LIMITE_SESION == 120     \* "if elapsed > 120"

Sesiones == {"s1", "s2"}

PLACEHOLDER == "-- Selecciona --"
SIN_INICIO == -1         \* "inicio_sesion" not in st.session_state

\* Clock readings: the instant the first page is opened and the instants
\* from the expiry limit on.
Instantes == {t \in 0..MaxReloj : t = 0 \/ t >= LIMITE_SESION}

\* ------------------------------------------------------------- text tables
\* df["nombre"].astype(str).str.strip()
Strip(n) == IF n = "Luis " THEN "Luis" ELSE n

\* Python's string order on the stripped names, used by sorted().
Rango(n) == CASE n = "Ana" -> 1 [] n = "Eva" -> 2 [] n = "Luis" -> 3 [] OTHER -> 4

\* Location labels that arrive in the URL parameter "punto".
PuntosURL == {"Ventanas", "VENTANAS", "Molienda", "SIN_PUNTO", "007"}

\* pd.read_csv infers a column's type from all of its cells: a column whose
\* cells are all integers is read as int64, so "007" comes back as 7.
EsEntero(p) == p \in {"007", "7"}
ComoEntero(p) == IF p = "007" THEN "7" ELSE p

\* normalizar: strip, lower, drop combining marks.
normalizar(texto) ==
    CASE texto \in {"Ventanas", "VENTANAS"} -> "ventanas"
      [] texto = "Molienda" -> "molienda"
      [] texto = "SIN_PUNTO" -> "sin_punto"
      [] OTHER -> texto

\* Keys of PUNTOS_COORDS with their pixel position.
PUNTOS_COORDS ==
    [k \in {"ventanas", "faja 2", "chancado primario", "chancado secundario",
            "cuarto control", "filtro zn", "flotacion zn", "flotacion pb",
            "tripper", "molienda", "nido de ciclones n°3"} |->
        CASE k = "ventanas" -> <<195, 608>>
          [] k = "faja 2" -> <<252, 587>>
          [] k = "chancado primario" -> <<300, 560>>
          [] k = "chancado secundario" -> <<388, 533>>
          [] k = "cuarto control" -> <<435, 465>>
          [] k = "filtro zn" -> <<455, 409>>
          [] k = "flotacion zn" -> <<623, 501>>
          [] k = "flotacion pb" -> <<691, 423>>
          [] k = "tripper" -> <<766, 452>>
          [] k = "molienda" -> <<802, 480>>
          [] OTHER -> <<811, 307>>]

\* ------------------------------------------------------------ sequences
RECURSIVE sorted(_)
\* sorted(): the elements of S as a sequence in increasing Rango.
sorted(S) ==
    IF S = {} THEN <<>>
    ELSE LET m == CHOOSE x \in S : \A y \in S : Rango(x) <= Rango(y)
         IN <<m>> \o sorted(S \ {m})

Elementos(sq) == {sq[i] : i \in DOMAIN sq}

\* ---------------------------------------------------------------- roster
\* personas.csv: estado is "ausente" (no file), "ok" or "corrupto" (the file
\* exists and pd.read_csv raises on it); con_activo tells whether the file
\* has an "activo" column; a cell of that column is "", "0", "1", "2" or a
\* word.
ActivoCrudo == {"", "0", "1", "2", "si"}

\* fillna(0).astype(int) on one cell; "error" when astype(int) raises.
ActivoInt(c) ==
    CASE c = "" -> 0
      [] c = "0" -> 0
      [] c = "1" -> 1
      [] c = "2" -> 2
      [] OTHER -> -1

ActivoValido(c) == c \in {"", "0", "1", "2"}

\* cargar_personas() keeping every row whose flag is not 0.
cargar_personas_no_cero(csv) ==
    IF csv.estado = "ausente" THEN [error |-> FALSE, filas |-> <<>>]
    ELSE IF csv.estado = "corrupto" THEN [error |-> TRUE, filas |-> <<>>]
    ELSE IF csv.con_activo /\ \E i \in DOMAIN csv.filas : ~ActivoValido(csv.filas[i].activo)
         THEN [error |-> TRUE, filas |-> <<>>]
    ELSE LET act(i) == IF csv.con_activo THEN ActivoInt(csv.filas[i].activo) ELSE 1
             conv == [i \in DOMAIN csv.filas |->
                        [nombre |-> Strip(csv.filas[i].nombre), activo |-> act(i)]]
         IN [error |-> FALSE,
             filas |-> SelectSeq(conv, LAMBDA r : r.activo # 0)]

\* cargar_personas(): [error |-> the call raised, filas |-> the active rows]
cargar_personas(csv) ==
    IF csv.estado = "ausente" THEN [error |-> FALSE, filas |-> <<>>]
    ELSE IF csv.estado = "corrupto" THEN [error |-> TRUE, filas |-> <<>>]
    ELSE IF csv.con_activo /\ \E i \in DOMAIN csv.filas : ~ActivoValido(csv.filas[i].activo)
         THEN [error |-> TRUE, filas |-> <<>>]
    ELSE LET act(i) == IF csv.con_activo THEN ActivoInt(csv.filas[i].activo) ELSE 1
             conv == [i \in DOMAIN csv.filas |->
                        [nombre |-> Strip(csv.filas[i].nombre), activo |-> act(i)]]
         IN [error |-> FALSE,
             filas |-> SelectSeq(conv, LAMBDA r : r.activo = 1)]

\* sorted(personas["nombre"].dropna().unique().tolist())
NombresDe(personas) == sorted({personas[i].nombre : i \in DOMAIN personas})

\* ---------------------------------------------------------- record store
\* registros.csv: estado is "ausente", "ok" or "ilegible" (the file exists
\* and pd.read_csv raises on it); filas are the rows stored in it.
Fila(t, n, p) ==
    [timestamp |-> t, fecha |-> t \div 86400, hora |-> t % 86400,
     nombre |-> n, punto |-> p]

\* pd.read_csv(RUTA_ARCHIVO, sep=";", engine="python")
LeerCSV(filas) ==
    IF filas # <<>> /\ \A i \in DOMAIN filas : EsEntero(filas[i].punto)
    THEN [i \in DOMAIN filas |-> [filas[i] EXCEPT !.punto = ComoEntero(@)]]
    ELSE filas

\* cargar_datos()
cargar_datos(csv) == IF csv.estado = "ok" THEN LeerCSV(csv.filas) ELSE <<>>

\* ------------------------------------------------------------------ state
VARIABLES
    reloj,          \* time.time() / datetime.now(lima), in seconds
    personas_csv,   \* personas.csv
    registros_csv,  \* registros.csv
    hoja,           \* rows of the remote worksheet (sh.sheet1)
    inicio_sesion,  \* st.session_state["inicio_sesion"] of each session
    nombre_sel,     \* value of the selectbox of each session
    punto,          \* URL parameter "punto" of each session
    pc,             \* where the script run of each session stands
    mensaje,        \* st.error / st.success shown by the last run
    aviso,          \* the run showed the Google Sheets warning
    nombres,        \* options offered by the selectbox in the last run
    df,             \* df of the guardar_registro call of the current run
    nuevo,          \* nuevo of the guardar_registro call of the current run
    escritos,       \* rewrites of registros.csv done by each session
    panel           \* what vista_panel last drew

vars == <<reloj, personas_csv, registros_csv, hoja, inicio_sesion, nombre_sel,
          punto, pc, mensaje, aviso, nombres, df, nuevo, escritos, panel>>

ArchivoVacio == [estado |-> "ausente", filas |-> <<>>]

\* The roster of the end-to-end scenario: "Ana" active, "Luis" inactive.
PersonasBase ==
    [estado |-> "ok", con_activo |-> TRUE,
     filas |-> << [nombre |-> "Ana", activo |-> "1"],
                  [nombre |-> "Luis ", activo |-> "0"] >>]

InitComun ==
    /\ reloj = 0
    /\ hoja = <<>>
    /\ inicio_sesion = [s \in Sesiones |-> SIN_INICIO]
    /\ nombre_sel = [s \in Sesiones |-> PLACEHOLDER]
    /\ pc = [s \in Sesiones |-> "reposo"]
    /\ mensaje = [s \in Sesiones |-> "nada"]
    /\ aviso = [s \in Sesiones |-> FALSE]
    /\ nombres = [s \in Sesiones |-> <<>>]
    /\ df = [s \in Sesiones |-> <<>>]
    /\ nuevo = [s \in Sesiones |-> <<>>]
    /\ escritos = [s \in Sesiones |-> 0]
    /\ panel = [vacio |-> TRUE, marcas |-> {}]

Init ==
    /\ InitComun
    /\ personas_csv = PersonasBase
    /\ registros_csv = ArchivoVacio
    /\ punto = [s \in Sesiones |-> IF s = "s1" THEN "Ventanas" ELSE "007"]

\* ------------------------------------------------------- vista_registro
\* The header of a run that sets inicio_sesion on every run.
CabeceraReinicia(s, sel, boton) ==
    LET personas == cargar_personas(personas_csv)
    IN /\ pc[s] = "reposo"
       /\ inicio_sesion' = [inicio_sesion EXCEPT ![s] = reloj]
       /\ nombre_sel' = [nombre_sel EXCEPT ![s] = sel]
       /\ aviso' = [aviso EXCEPT ![s] = FALSE]
       /\ df' = [df EXCEPT ![s] = <<>>]
       /\ nuevo' = [nuevo EXCEPT ![s] = <<>>]
       /\ IF personas.error
          THEN /\ mensaje' = [mensaje EXCEPT ![s] = "excepcion"]
               /\ nombres' = [nombres EXCEPT ![s] = <<>>]
               /\ pc' = pc
          ELSE IF personas.filas = <<>>
          THEN /\ mensaje' = [mensaje EXCEPT ![s] = "sin_personas"]
               /\ nombres' = [nombres EXCEPT ![s] = <<>>]
               /\ pc' = pc
          ELSE /\ mensaje' = [mensaje EXCEPT ![s] = "formulario"]
               /\ nombres' = [nombres EXCEPT ![s] = NombresDe(personas.filas)]
               /\ pc' = [pc EXCEPT ![s] = IF boton THEN "boton" ELSE "reposo"]
       /\ UNCHANGED <<reloj, personas_csv, registros_csv, hoja, punto,
                      escritos, panel>>

\* Lines 279-313 of a script run of session s whose selectbox holds sel;
\* boton tells whether the run was triggered by the button.
Cabecera(s, sel, boton) ==
    LET ini == IF inicio_sesion[s] = SIN_INICIO THEN reloj ELSE inicio_sesion[s]
        elapsed == reloj - ini
        personas == cargar_personas(personas_csv)
    IN /\ pc[s] = "reposo"
       /\ inicio_sesion' = [inicio_sesion EXCEPT ![s] = ini]
       /\ nombre_sel' = [nombre_sel EXCEPT ![s] = sel]
       /\ aviso' = [aviso EXCEPT ![s] = FALSE]
       /\ df' = [df EXCEPT ![s] = <<>>]
       /\ nuevo' = [nuevo EXCEPT ![s] = <<>>]
       /\ IF elapsed > LIMITE_SESION
          THEN /\ mensaje' = [mensaje EXCEPT ![s] = "expirado"]
               /\ nombres' = [nombres EXCEPT ![s] = <<>>]
               /\ pc' = pc
          ELSE IF personas.error
          THEN /\ mensaje' = [mensaje EXCEPT ![s] = "excepcion"]
               /\ nombres' = [nombres EXCEPT ![s] = <<>>]
               /\ pc' = pc
          ELSE IF personas.filas = <<>>
          THEN /\ mensaje' = [mensaje EXCEPT ![s] = "sin_personas"]
               /\ nombres' = [nombres EXCEPT ![s] = <<>>]
               /\ pc' = pc
          ELSE /\ mensaje' = [mensaje EXCEPT ![s] = "formulario"]
               /\ nombres' = [nombres EXCEPT ![s] = NombresDe(personas.filas)]
               /\ pc' = [pc EXCEPT ![s] = IF boton THEN "boton" ELSE "reposo"]
       /\ UNCHANGED <<reloj, personas_csv, registros_csv, hoja, punto,
                      escritos, panel>>

\* The selectbox and the button are on the page.
FormularioVisible(s) == nombres[s] # <<>>

\* guardar_registro calls started and not yet written, plus those written.
RECURSIVE Suma(_, _)
Suma(f, S) == IF S = {} THEN 0
              ELSE LET x == CHOOSE y \in S : TRUE IN f[x] + Suma(f, S \ {x})

Iniciados ==
    Suma(escritos, Sesiones)
    + Cardinality({s \in Sesiones : pc[s] \in {"boton", "leer", "escribir"}})

\* The page is opened: the first script run of the session.
Abrir(s) ==
    /\ inicio_sesion[s] = SIN_INICIO
    /\ Cabecera(s, PLACEHOLDER, FALSE)

\* The user picks an option of the selectbox; Streamlit reruns the script.
Seleccionar(s) ==
    /\ FormularioVisible(s)
    /\ \E n \in {PLACEHOLDER} \cup Elementos(nombres[s]) :
          /\ n # nombre_sel[s]
          /\ Cabecera(s, n, FALSE)

\* The user presses "Registrar presencia"; Streamlit reruns the script.
Presionar(s) ==
    /\ FormularioVisible(s)
    /\ Iniciados < MaxRegistros
    /\ Cabecera(s, nombre_sel[s], TRUE)

\* The button body without the check of the placeholder.
BotonSinValidar(s) ==
    /\ pc[s] = "boton"
    /\ IF reloj - inicio_sesion[s] > LIMITE_SESION
       THEN /\ mensaje' = [mensaje EXCEPT ![s] = "excedido"]
            /\ pc' = [pc EXCEPT ![s] = "reposo"]
       ELSE /\ mensaje' = mensaje
            /\ pc' = [pc EXCEPT ![s] = "leer"]
    /\ UNCHANGED <<reloj, personas_csv, registros_csv, hoja, inicio_sesion,
                   nombre_sel, punto, aviso, nombres, df, nuevo, escritos, panel>>

\* Lines 315-327: the body of "if st.button(...)".
Boton(s) ==
    /\ pc[s] = "boton"
    /\ IF reloj - inicio_sesion[s] > LIMITE_SESION
       THEN /\ mensaje' = [mensaje EXCEPT ![s] = "excedido"]
            /\ pc' = [pc EXCEPT ![s] = "reposo"]
       ELSE IF nombre_sel[s] = PLACEHOLDER
       THEN /\ mensaje' = [mensaje EXCEPT ![s] = "seleccione"]
            /\ pc' = [pc EXCEPT ![s] = "reposo"]
       ELSE /\ mensaje' = mensaje
            /\ pc' = [pc EXCEPT ![s] = "leer"]
    /\ UNCHANGED <<reloj, personas_csv, registros_csv, hoja, inicio_sesion,
                   nombre_sel, punto, aviso, nombres, df, nuevo, escritos, panel>>

\* ----------------------------------------------------- guardar_registro
\* Line 116: df = cargar_datos()
Leer(s) ==
    /\ pc[s] = "leer"
    /\ df' = [df EXCEPT ![s] = cargar_datos(registros_csv)]
    /\ nuevo' = [nuevo EXCEPT ![s] = <<>>]
    /\ pc' = [pc EXCEPT ![s] = "escribir"]
    /\ UNCHANGED <<reloj, personas_csv, registros_csv, hoja, inicio_sesion,
                   nombre_sel, punto, mensaje, aviso, nombres, escritos, panel>>

\* A write that adds the row to what the file holds at the time of the write.
EscribirAlFinal(s) ==
    LET fila == <<Fila(reloj, nombre_sel[s], punto[s])>>
    IN /\ pc[s] = "escribir"
       /\ nuevo' = [nuevo EXCEPT ![s] = fila]
       /\ df' = [df EXCEPT ![s] = df[s] \o fila]
       /\ registros_csv' = [estado |-> "ok",
                            filas |-> cargar_datos(registros_csv) \o fila]
       /\ escritos' = [escritos EXCEPT ![s] = @ + 1]
       /\ pc' = [pc EXCEPT ![s] = "remoto"]
       /\ UNCHANGED <<reloj, personas_csv, hoja, inicio_sesion, nombre_sel,
                      punto, mensaje, aviso, nombres, panel>>

\* Lines 118-134: the new row, pd.concat and df.to_csv
Escribir(s) ==
    LET fila == <<Fila(reloj, nombre_sel[s], punto[s])>>
        todo == df[s] \o fila
    IN /\ pc[s] = "escribir"
       /\ nuevo' = [nuevo EXCEPT ![s] = fila]
       /\ df' = [df EXCEPT ![s] = todo]
       /\ registros_csv' = [estado |-> "ok", filas |-> todo]
       /\ escritos' = [escritos EXCEPT ![s] = @ + 1]
       /\ pc' = [pc EXCEPT ![s] = "remoto"]
       /\ UNCHANGED <<reloj, personas_csv, hoja, inicio_sesion, nombre_sel,
                      punto, mensaje, aviso, nombres, panel>>

\* The remote append without the try/except: a failure ends the run.
ReplicarSinTry(s, ok) ==
    /\ pc[s] = "remoto"
    /\ IF ok
       THEN /\ hoja' = hoja \o nuevo[s]
            /\ mensaje' = [mensaje EXCEPT ![s] = "exito"]
       ELSE /\ hoja' = hoja
            /\ mensaje' = [mensaje EXCEPT ![s] = "excepcion"]
    /\ aviso' = aviso
    /\ pc' = [pc EXCEPT ![s] = "reposo"]
    /\ UNCHANGED <<reloj, personas_csv, registros_csv, inicio_sesion,
                   nombre_sel, punto, nombres, df, nuevo, escritos, panel>>

\* Lines 136-140 and 326-327: the remote append (ok tells whether neither
\* get_worksheet() nor append_row raised), then the success message.
Replicar(s, ok) ==
    /\ pc[s] = "remoto"
    /\ IF ok
       THEN /\ hoja' = hoja \o nuevo[s]
            /\ aviso' = aviso
       ELSE /\ hoja' = hoja
            /\ aviso' = [aviso EXCEPT ![s] = TRUE]
    /\ mensaje' = [mensaje EXCEPT ![s] = "exito"]
    /\ pc' = [pc EXCEPT ![s] = "reposo"]
    /\ UNCHANGED <<reloj, personas_csv, registros_csv, inicio_sesion,
                   nombre_sel, punto, nombres, df, nuevo, escritos, panel>>

\* ------------------------------------------------------------ environment
\* Time passes.
Tic ==
    /\ \E t \in Instantes : t > reloj /\ reloj' = t
    /\ UNCHANGED <<personas_csv, registros_csv, hoja, inicio_sesion, nombre_sel,
                   punto, pc, mensaje, aviso, nombres, df, nuevo, escritos, panel>>

\* registros.csv is damaged from outside: it exists, pd.read_csv raises.
DanarArchivo ==
    /\ registros_csv.estado = "ok"
    /\ registros_csv' = [registros_csv EXCEPT !.estado = "ilegible"]
    /\ UNCHANGED <<reloj, personas_csv, hoja, inicio_sesion, nombre_sel, punto,
                   pc, mensaje, aviso, nombres, df, nuevo, escritos, panel>>

Next ==
    \/ \E s \in Sesiones : Abrir(s)
    \/ \E s \in Sesiones : Seleccionar(s)
    \/ \E s \in Sesiones : Presionar(s)
    \/ \E s \in Sesiones : Boton(s)
    \/ \E s \in Sesiones : Leer(s)
    \/ \E s \in Sesiones : Escribir(s)
    \/ \E s \in Sesiones : \E ok \in BOOLEAN : Replicar(s, ok)
    \/ Tic
    \/ DanarArchivo

Spec == Init /\ [][Next]_vars

\* ------------------------------------------------------- generar_heatmap
PALETA ==
    << <<255, 99, 132, 255>>, <<54, 162, 235, 255>>, <<75, 192, 192, 255>>,
       <<255, 206, 86, 255>>, <<153, 102, 255, 255>>, <<255, 159, 64, 255>>,
       <<0, 200, 83, 255>>, <<233, 30, 99, 255>> >>

\* generar_heatmap(df, selected_person, debug=True): the markers drawn.  A
\* marker is the idx-th of num_personas on the ring around base; its pixel
\* is base + 18 * (cos, sin)(2 pi idx / num_personas).
generar_heatmap(dfp, selected_person) ==
    LET filtrado == IF selected_person # "Todos"
                    THEN SelectSeq(dfp, LAMBDA r : r.nombre = selected_person)
                    ELSE dfp
        grupos == {normalizar(filtrado[i].punto) : i \in DOMAIN filtrado}
        nombres_punto(g) ==
            sorted({filtrado[i].nombre : i \in
                      {j \in DOMAIN filtrado : normalizar(filtrado[j].punto) = g}})
    IN UNION { { [punto_norm |-> g,
                  base |-> PUNTOS_COORDS[g],
                  idx |-> k - 1,
                  num_personas |-> Len(nombres_punto(g)),
                  nombre |-> nombres_punto(g)[k],
                  color |-> PALETA[((k - 1) % Len(PALETA)) + 1]]
                 : k \in DOMAIN nombres_punto(g) }
               : g \in grupos \cap DOMAIN PUNTOS_COORDS }

\* vista_panel(): the "no records yet" notice, or the point map for the
\* person chosen in the filter.
vista_panel ==
    LET datos == cargar_datos(registros_csv)
    IN /\ IF datos = <<>>
          THEN panel' = [vacio |-> TRUE, marcas |-> {}]
          ELSE \E persona_sel \in {"Todos"} \cup {datos[i].nombre : i \in DOMAIN datos} :
                  panel' = [vacio |-> FALSE,
                            marcas |-> generar_heatmap(datos, persona_sel)]
       /\ UNCHANGED <<reloj, personas_csv, registros_csv, hoja, inicio_sesion,
                      nombre_sel, punto, pc, mensaje, aviso, nombres, df, nuevo,
                      escritos>>

\* Record files the panel is shown: up to MaxFilasMapa rows registered at
\* second 0 by three people at the text locations of PuntosURL.
RECURSIVE SeqHasta(_, _)
SeqHasta(S, n) ==
    IF n = 0 THEN {<<>>}
    ELSE LET menores == SeqHasta(S, n - 1)
         IN menores \cup {Append(q, x) : q \in {m \in menores : Len(m) = n - 1}, x \in S}

PersonasMapa ==
    [estado |-> "ok", con_activo |-> FALSE,
     filas |-> << [nombre |-> "Ana", activo |-> ""],
                  [nombre |-> "Eva", activo |-> ""],
                  [nombre |-> "Luis ", activo |-> ""] >>]

FilasMapa ==
    {Fila(0, n, p) : n \in {"Ana", "Eva", "Luis"}, p \in PuntosURL \ {"007"}}

InitMapa ==
    /\ InitComun
    /\ personas_csv = PersonasMapa
    /\ punto = [s \in Sesiones |-> "Ventanas"]
    /\ registros_csv \in
          {ArchivoVacio} \cup
          {[estado |-> e, filas |-> f] :
              e \in {"ok", "ilegible"}, f \in SeqHasta(FilasMapa, MaxFilasMapa) \ {<<>>}}

NextMapa == vista_panel

SpecMapa == InitMapa /\ [][NextMapa]_vars

\* ------------------------------------------------- rosters, one session
\* personas.csv files of up to MaxPersonas rows; without an "activo" column
\* the cells of that column are empty.
Rosters ==
    {[estado |-> "ausente", con_activo |-> FALSE, filas |-> <<>>],
     [estado |-> "corrupto", con_activo |-> FALSE, filas |-> <<>>]}
    \cup {[estado |-> "ok", con_activo |-> TRUE, filas |-> f] :
            f \in SeqHasta([nombre : {"Ana", "Luis "}, activo : ActivoCrudo], MaxPersonas)}
    \cup {[estado |-> "ok", con_activo |-> FALSE, filas |-> f] :
            f \in SeqHasta([nombre : {"Ana", "Luis "}, activo : {""}], MaxPersonas)}

InitUna ==
    /\ InitComun
    /\ personas_csv \in Rosters
    /\ registros_csv = ArchivoVacio
    /\ punto = [s \in Sesiones |-> "Ventanas"]

\* Session s1 alone: its guardar_registro calls run one after another.
NextUna ==
    \/ Abrir("s1")
    \/ Seleccionar("s1")
    \/ Presionar("s1")
    \/ Boton("s1")
    \/ Leer("s1")
    \/ Escribir("s1")
    \/ \E ok \in BOOLEAN : Replicar("s1", ok)
    \/ Tic
    \/ DanarArchivo

SpecUna == InitUna /\ [][NextUna]_vars

\* Two sessions and a record file that is never damaged from outside.
NextSinDano ==
    \/ \E s \in Sesiones : Abrir(s)
    \/ \E s \in Sesiones : Seleccionar(s)
    \/ \E s \in Sesiones : Presionar(s)
    \/ \E s \in Sesiones : Boton(s)
    \/ \E s \in Sesiones : Leer(s)
    \/ \E s \in Sesiones : Escribir(s)
    \/ \E s \in Sesiones : \E ok \in BOOLEAN : Replicar(s, ok)
    \/ Tic

SpecSinDano == Init /\ [][NextSinDano]_vars

\* ================================================================ claims
Ultima(sq) == sq[Len(sq)]

EscribeAhora(s) == pc[s] = "escribir" /\ pc'[s] = "remoto"

\* C1: every guardar_registro call, the calls running one after another,
\* leaves the rows stored before it in place, unchanged and in order, and
\* adds its one row at the end, also when the file cannot be read.
C1_SoloAgrega ==
    [][EscribeAhora("s1") =>
         registros_csv'.filas = registros_csv.filas \o nuevo'["s1"]]_vars

\* C2: the record file is rewritten with the new row before the remote
\* append is attempted; the remote step, failed or not, leaves the record
\* file as it is, is made once, and ends the run with the success message;
\* a failed one shows the warning and adds nothing to the worksheet.
C2_RemotoNoBloquea ==
    [][\A s \in Sesiones :
         /\ (pc[s] # "remoto" /\ pc'[s] = "remoto") =>
               /\ registros_csv'.estado = "ok"
               /\ registros_csv'.filas # <<>>
               /\ <<Ultima(registros_csv'.filas)>> = nuevo'[s]
               /\ hoja' = hoja
         /\ (pc[s] = "remoto" /\ pc'[s] # "remoto") =>
               /\ registros_csv' = registros_csv
               /\ pc'[s] = "reposo"
               /\ mensaje'[s] = "exito"
               /\ hoja' \in {hoja, hoja \o nuevo[s]}
               /\ aviso'[s] <=> (hoja' = hoja)]_vars

\* A run ended with the warning and the success message, its row is the
\* last of the record file and the worksheet holds nothing.
C2_Testigo ==
    \E s \in Sesiones :
        /\ pc[s] = "reposo" /\ aviso[s] /\ mensaje[s] = "exito"
        /\ registros_csv.estado = "ok"
        /\ registros_csv.filas # <<>>
        /\ <<Ultima(registros_csv.filas)>> = nuevo[s]
        /\ hoja = <<>>

\* C3: the record file never holds two records of the same person whose
\* timestamps are less than the cooldown window apart, whatever the window
\* of 1..MaxVentana minutes.
C3_Cooldown ==
    \A w \in 1..MaxVentana :
      \A i, j \in DOMAIN registros_csv.filas :
        (i < j /\ registros_csv.filas[i].nombre = registros_csv.filas[j].nombre)
          => registros_csv.filas[j].timestamp - registros_csv.filas[i].timestamp >= 60 * w

\* C4: at most one record is ever written per session.
C4_UnaVezPorSesion == \A s \in Sesiones : escritos[s] <= 1

\* C5: the button pressed with the placeholder selected ends the run with a
\* rejection message, without calling guardar_registro, and leaves the
\* record file and the worksheet as they were.
C5_RechazoNoEscribe ==
    [][\A s \in Sesiones :
         (pc[s] = "boton" /\ nombre_sel[s] = PLACEHOLDER /\ pc'[s] # "boton") =>
            /\ pc'[s] = "reposo"
            /\ mensaje'[s] = IF reloj - inicio_sesion[s] > LIMITE_SESION
                             THEN "excedido" ELSE "seleccione"
            /\ registros_csv' = registros_csv
            /\ hoja' = hoja
            /\ escritos' = escritos]_vars

\* The rejection was shown while the record file and the worksheet held a
\* record.
C5_Testigo ==
    \E s \in Sesiones :
        /\ mensaje[s] = "seleccione" /\ nombre_sel[s] = PLACEHOLDER
        /\ registros_csv.filas # <<>>
        /\ hoja # <<>>

\* C6: no run of the registration view ends with an exception of
\* cargar_personas, whatever personas.csv holds.
C6_CargaNoFalla == \A s \in Sesiones : mensaje[s] # "excepcion"

\* The names of the roster rows whose flag is 1 (every row when the file
\* has no "activo" column).
NombresActivos ==
    {Strip(personas_csv.filas[i].nombre) :
        i \in {j \in DOMAIN personas_csv.filas :
                 personas_csv.con_activo => personas_csv.filas[j].activo = "1"}}

\* C7: the selectbox offers exactly the names of the roster rows whose flag
\* is 1, and every record of the record file and of the worksheet carries
\* one of these names.
C7_SoloActivos ==
    /\ \A s \in Sesiones :
          FormularioVisible(s) => Elementos(nombres[s]) = NombresActivos
    /\ \A i \in DOMAIN registros_csv.filas :
          registros_csv.filas[i].nombre \in NombresActivos
    /\ \A i \in DOMAIN hoja : hoja[i].nombre \in NombresActivos

\* A roster with an active and an inactive row, and a record stored.
C7_Testigo ==
    /\ personas_csv.con_activo
    /\ \E i \in DOMAIN personas_csv.filas : personas_csv.filas[i].activo = "1"
    /\ \E i \in DOMAIN personas_csv.filas : personas_csv.filas[i].activo \in {"0", "2", ""}
    /\ registros_csv.filas # <<>>

\* C8: in the point map a person's markers have one color at every
\* location.
C8_ColorPorPersona ==
    \A m1, m2 \in panel.marcas : m1.nombre = m2.nombre => m1.color = m2.color

\* C9: when the two sessions have completed a call with the success message
\* and both calls read the same number of rows, the record file is the
\* rewrite of one of them: it holds one row more than was read, not two.
C9_UltimaEscrituraGana ==
    \A s, t \in Sesiones :
        ( /\ s # t
          /\ pc[s] = "reposo" /\ mensaje[s] = "exito"
          /\ pc[t] = "reposo" /\ mensaje[t] = "exito"
          /\ Len(df[s]) = Len(df[t]) )
        => /\ registros_csv.filas \in {df[s], df[t]}
           /\ Len(registros_csv.filas) = Len(df[s])

\* Each session has completed one call with the success message, both read
\* the empty store, and the record file holds one row.
C9_Testigo ==
    /\ \A s \in Sesiones :
          /\ pc[s] = "reposo" /\ mensaje[s] = "exito"
          /\ escritos[s] = 1 /\ Len(df[s]) = 1
    /\ Len(registros_csv.filas) = 1

\* C10 as stated: no session rewrites the record file more than
\* LIMITE_SESION seconds after its first render.
C10_SinEscrituraTardia ==
    [][\A s \in Sesiones :
         EscribeAhora(s) => reloj - inicio_sesion[s] <= LIMITE_SESION]_vars

\* C10 amended: the start time of a session is set once; a run made more
\* than LIMITE_SESION seconds after it shows the expired message and stops
\* before guardar_registro; a press at exactly LIMITE_SESION seconds with a
\* name selected calls guardar_registro; so guardar_registro is never
\* called more than LIMITE_SESION seconds after the first render.
C10_Expira ==
    [][\A s \in Sesiones :
         LET elapsed == reloj - inicio_sesion[s]
         IN /\ inicio_sesion[s] # SIN_INICIO => inicio_sesion'[s] = inicio_sesion[s]
            /\ (inicio_sesion[s] # SIN_INICIO /\ elapsed > LIMITE_SESION) =>
                  /\ pc[s] = "reposo" =>
                        /\ pc'[s] = "reposo"
                        /\ mensaje'[s] \in {mensaje[s], "expirado"}
                  /\ pc[s] = "boton" =>
                        /\ pc'[s] \in {"boton", "reposo"}
                        /\ pc'[s] = "reposo" => mensaje'[s] = "excedido"
            /\ (pc[s] = "boton" /\ pc'[s] = "leer") => elapsed <= LIMITE_SESION
            /\ (pc[s] = "boton" /\ pc'[s] # "boton" /\ elapsed = LIMITE_SESION
                  /\ nombre_sel[s] # PLACEHOLDER) => pc'[s] = "leer"]_vars

\* guardar_registro was called at exactly LIMITE_SESION seconds.
C10_Testigo ==
    \E s \in Sesiones :
        /\ pc[s] = "leer"
        /\ reloj - inicio_sesion[s] = LIMITE_SESION

====
